---- MODULE Spec2Model ----
(***************************************************************************)
(* httpx: Request.Perform and its retry policy.                            *)
(*                                                                         *)
(* One Perform call is a sequential process: Begin (validation, timeout,   *)
(* body encoding, attempt budget, client resolution), then for each        *)
(* attempt AttemptStart (ctx check, request construction), Send            *)
(* (client.Do), Read (io.ReadAll and the retry decision) and, on a retry,  *)
(* a backoff sleep that ends by its timer or by the context.  The          *)
(* transport, the server, the caller's context and the caller's body       *)
(* buffer are the environment.                                             *)
(* Durations are in milliseconds.  Text is a sequence of characters, each  *)
(* a string, so that trimming, case folding, escaping and parsing are      *)
(* computed.  A printable ASCII character is itself; \t, \n, \f, \r are    *)
(* written as such; any other character is written by its Go escape, as a  *)
(* string that starts with a backslash: "\\v" is the vertical tab and     *)
(* "\\u00a0" the no-break space.                                           *)
(*                                                                         *)
(* The retry-policy functions (isRetryableStatus, isIdempotentMethod,      *)
(* sleepBackoff) are also run on their own, on inputs a Perform call never *)
(* passes them, under SpecPolicy.                                          *)
(***************************************************************************)
EXTENDS Integers, Sequences, FiniteSets, TLC

VARIABLES
    pc,         \* pc[p]: "off", "init", "top", "send", "read", "sleep", "done"
    args,       \* args[p]: the Request fields and Perform arguments of call p
    bodyVal,    \* bodyVal[p]: current content of the caller's body value
    writes,     \* writes[p]: how many stores the caller has made into that value
    ctxErr,     \* ctxErr[p]: ctx.Err() of call p: "nil", "canceled", "deadline"
    rclient,    \* the caller's *http.Client that r.Client points to
    server,     \* which transport/server the run talks to: "any" or "flaky"
    loc,        \* loc[p]: Perform's locals
    hist,       \* hist[p]: one entry per physical request sent (client.Do)
    sleeps,     \* sleeps[p]: one entry per sleepBackoff call that returned
    result,     \* result[p]: what Perform returned (resp, body, err)
    probe,      \* the last application of a retry-policy predicate on its own
    nap         \* one sleepBackoff call on its own, with the time it has waited

callVars == <<pc, args, bodyVal, writes, ctxErr, rclient, server, loc, hist, sleeps, result>>
vars == <<pc, args, bodyVal, writes, ctxErr, rclient, server, loc, hist, sleeps, result,
          probe, nap>>

Calls == {1, 2}

\* How many stores the caller makes into its body value during one call.
MaxWrites == 3

(***************************************************************************)
(* Program constants.                                                      *)
(***************************************************************************)
DefaultRetryAttempts == 3
DefaultBaseBackoff == 200
DefaultTimeout == 15000

(***************************************************************************)
(* Text helpers: strings.TrimSpace and strings.ToUpper.                    *)
(***************************************************************************)
LowerAlpha == <<"a","b","c","d","e","f","g","h","i","j","k","l","m",
                "n","o","p","q","r","s","t","u","v","w","x","y","z">>
UpperAlpha == <<"A","B","C","D","E","F","G","H","I","J","K","L","M",
                "N","O","P","Q","R","S","T","U","V","W","X","Y","Z">>

\* unicode.IsSpace: the six ASCII white-space characters, U+0085, U+00A0 and
\* the characters of category Z and property Pattern_White_Space above them.
AsciiSpace == {" ", "\t", "\n", "\\v", "\f", "\r"}
UnicodeSpace ==
    {"\\u0085", "\\u00a0", "\\u1680", "\\u2000", "\\u2001", "\\u2002", "\\u2003",
     "\\u2004", "\\u2005", "\\u2006", "\\u2007", "\\u2008", "\\u2009", "\\u200a",
     "\\u2028", "\\u2029", "\\u202f", "\\u205f", "\\u3000"}

IsSpace(c) == c \in AsciiSpace \cup UnicodeSpace

\* unicode.ToUpper on the characters that are not ASCII letters and have an
\* upper-case form among the modelled characters: the dotless i and the long
\* s fold to ASCII letters.
UpperOfOther ==
    {<<"\\u0131", "I">>, <<"\\u017f", "S">>, <<"\\u00e9", "\\u00c9">>}

ToUpperChar(c) ==
    IF \E k \in 1..26 : LowerAlpha[k] = c
    THEN UpperAlpha[CHOOSE k \in 1..26 : LowerAlpha[k] = c]
    ELSE IF \E u \in UpperOfOther : u[1] = c
    THEN (CHOOSE u \in UpperOfOther : u[1] = c)[2]
    ELSE c

ToUpper(s) == [k \in 1..Len(s) |-> ToUpperChar(s[k])]

RECURSIVE TrimLeft(_)
TrimLeft(s) ==
    IF s # <<>> /\ IsSpace(Head(s)) THEN TrimLeft(Tail(s)) ELSE s

RECURSIVE TrimRight(_)
TrimRight(s) ==
    IF s # <<>> /\ IsSpace(s[Len(s)])
    THEN TrimRight(SubSeq(s, 1, Len(s) - 1))
    ELSE s

TrimSpace(s) == TrimRight(TrimLeft(s))

(***************************************************************************)
(* Retry policy.                                                           *)
(***************************************************************************)
\* A range check in place of the allow-list.
isRetryableStatusRange(code) == code = 429 \/ code >= 500

isRetryableStatus(code) == code \in {429, 500, 502, 503, 504}

MethodGet     == <<"G","E","T">>
MethodHead    == <<"H","E","A","D">>
MethodPost    == <<"P","O","S","T">>
MethodPut     == <<"P","U","T">>
MethodPatch   == <<"P","A","T","C","H">>
MethodDelete  == <<"D","E","L","E","T","E">>
MethodOptions == <<"O","P","T","I","O","N","S">>
MethodTrace   == <<"T","R","A","C","E">>

\* POST taken for a method that is safe to repeat.
isIdempotentMethodWithPost(method) ==
    ToUpper(TrimSpace(method)) \in
        {MethodGet, MethodHead, MethodPut, MethodDelete, MethodOptions, MethodTrace,
         MethodPost}

\* The method compared as given, surrounding whitespace kept.
isIdempotentMethodNoTrim(method) ==
    ToUpper(method) \in
        {MethodGet, MethodHead, MethodPut, MethodDelete, MethodOptions, MethodTrace}

isIdempotentMethod(method) ==
    ToUpper(TrimSpace(method)) \in
        {MethodGet, MethodHead, MethodPut, MethodDelete, MethodOptions, MethodTrace}

\* A transport error: whether errors.As finds a net.Error in it, and what that
\* net.Error reports.
NoTErr == [isNil |-> TRUE, net |-> FALSE, timeout |-> FALSE, temporary |-> FALSE]
TErr(n, to, tmp) == [isNil |-> FALSE, net |-> n, timeout |-> to, temporary |-> tmp]

\* Every transport error taken for a transient one.
isRetryableErrorAny(err) == ~err.isNil

isRetryableError(err) ==
    IF err.isNil THEN FALSE
    ELSE IF err.net THEN err.timeout \/ err.temporary
    ELSE FALSE

RECURSIVE backoffLoopInclusive(_, _, _)
\* One doubling too many.
backoffLoopInclusive(d, k, attempt) ==
    IF k <= attempt THEN backoffLoopInclusive(d * 2, k + 1, attempt) ELSE d

RECURSIVE backoffLoop(_, _, _)
backoffLoop(d, k, attempt) ==
    IF k < attempt THEN backoffLoop(d * 2, k + 1, attempt) ELSE d

backoffDelay(attempt) == backoffLoop(DefaultBaseBackoff, 1, attempt)

(***************************************************************************)
(* Values: byte slices (nil or not), responses, errors, return triples.    *)
(***************************************************************************)
NilBytes == [isNil |-> TRUE, b |-> <<>>]
Bytes(s) == [isNil |-> FALSE, b |-> s]

NilResp == [isNil |-> TRUE, id |-> 0, StatusCode |-> 0]
\* The *http.Response obtained by attempt id.
Resp(id, code) == [isNil |-> FALSE, id |-> id, StatusCode |-> code]

NilErr == [kind |-> "nil", cause |-> "", code |-> 0, terr |-> NoTErr]
Err(kind, cause, code, terr) ==
    [kind |-> kind, cause |-> cause, code |-> code, terr |-> terr]

Ret(resp, body, err) == [resp |-> resp, body |-> body, err |-> err]
NoResult == Ret(NilResp, NilBytes, NilErr)

(***************************************************************************)
(* encodeBody.  kind is the dynamic type of the body value: "string",      *)
(* "bytes" ([]byte), "strptr" (a pointer to a string) or "chan" (a value   *)
(* no marshaler supports).  shared says the returned slice is the caller's *)
(* own backing array (return x) rather than freshly allocated bytes.  A    *)
(* []byte under the json or xml format is outside the modelled inputs.     *)
(***************************************************************************)
Quote == <<"\"">>
XmlOpen == <<"<","s","t","r","i","n","g",">">>
XmlClose == <<"<","/","s","t","r","i","n","g",">">>

\* The control characters among the modelled characters: NUL, backspace,
\* tab, line feed, vertical tab, form feed, carriage return, escape, delete.
ControlChars == {"\\x00", "\\b", "\t", "\n", "\\v", "\f", "\r", "\\x1b", "\\x7f"}

\* encoding/json, string encoding with HTML escaping on: what is written for
\* a character that is not copied as it is.  Backspace and form feed are
\* written in their short form, as toolchains from Go 1.22 on do.
JsonEscapes ==
    {<<"\"", <<"\\", "\"">>>>,
     <<"\\", <<"\\", "\\">>>>,
     <<"\n", <<"\\", "n">>>>,
     <<"\r", <<"\\", "r">>>>,
     <<"\t", <<"\\", "t">>>>,
     <<"\\b", <<"\\", "b">>>>,
     <<"\f", <<"\\", "f">>>>,
     <<"\\x00", <<"\\", "u", "0", "0", "0", "0">>>>,
     <<"\\v", <<"\\", "u", "0", "0", "0", "b">>>>,
     <<"\\x1b", <<"\\", "u", "0", "0", "1", "b">>>>,
     <<"<", <<"\\", "u", "0", "0", "3", "c">>>>,
     <<">", <<"\\", "u", "0", "0", "3", "e">>>>,
     <<"&", <<"\\", "u", "0", "0", "2", "6">>>>,
     <<"\\u2028", <<"\\", "u", "2", "0", "2", "8">>>>,
     <<"\\u2029", <<"\\", "u", "2", "0", "2", "9">>>>}

jsonEscapeChar(c) ==
    IF \E e \in JsonEscapes : e[1] = c
    THEN (CHOOSE e \in JsonEscapes : e[1] = c)[2]
    ELSE <<c>>

RECURSIVE jsonEscape(_)
jsonEscape(s) ==
    IF s = <<>> THEN <<>> ELSE jsonEscapeChar(Head(s)) \o jsonEscape(Tail(s))

\* encoding/xml, EscapeText: the named and numeric references, and U+FFFD
\* for a character outside the XML character range.
XmlEscapes ==
    {<<"\"", <<"&", "#", "3", "4", ";">>>>,
     <<"'", <<"&", "#", "3", "9", ";">>>>,
     <<"&", <<"&", "a", "m", "p", ";">>>>,
     <<"<", <<"&", "l", "t", ";">>>>,
     <<">", <<"&", "g", "t", ";">>>>,
     <<"\t", <<"&", "#", "x", "9", ";">>>>,
     <<"\n", <<"&", "#", "x", "A", ";">>>>,
     <<"\r", <<"&", "#", "x", "D", ";">>>>}

xmlEscapeChar(c) ==
    IF \E e \in XmlEscapes : e[1] = c
    THEN (CHOOSE e \in XmlEscapes : e[1] = c)[2]
    ELSE IF c \in ControlChars \ {"\\x7f"} THEN <<"\\ufffd">>
    ELSE <<c>>

RECURSIVE xmlEscape(_)
xmlEscape(s) ==
    IF s = <<>> THEN <<>> ELSE xmlEscapeChar(Head(s)) \o xmlEscape(Tail(s))

jsonMarshal(kind, v) ==
    CASE kind \in {"string", "strptr"} ->
            [b |-> Quote \o jsonEscape(v) \o Quote, err |-> ""]
      [] kind = "chan" -> [b |-> <<>>, err |-> "json: unsupported type"]

xmlMarshal(kind, v) ==
    CASE kind \in {"string", "strptr"} ->
            [b |-> XmlOpen \o xmlEscape(v) \o XmlClose, err |-> ""]
      [] kind = "chan" -> [b |-> <<>>, err |-> "xml: unsupported type"]

Encoded(b, shared, ct, err) == [b |-> b, shared |-> shared, ct |-> ct, err |-> err]

\* The plain format taking any value as text.
encodeBodyPlainLenient(t, kind, v) ==
    IF t = "xml" THEN
        LET m == xmlMarshal(kind, v) IN
        IF m.err # "" THEN Encoded(<<>>, FALSE, "", "xml marshal")
        ELSE Encoded(m.b, FALSE, "application/xml", "")
    ELSE IF t = "plain" THEN
        IF kind = "bytes" THEN Encoded(v, TRUE, "text/plain", "")
        ELSE Encoded(v, FALSE, "text/plain", "")
    ELSE
        LET m == jsonMarshal(kind, v) IN
        IF m.err # "" THEN Encoded(<<>>, FALSE, "", "json marshal")
        ELSE Encoded(m.b, FALSE, "application/json", "")

encodeBody(t, kind, v) ==
    IF t = "xml" THEN
        LET m == xmlMarshal(kind, v) IN
        IF m.err # "" THEN Encoded(<<>>, FALSE, "", "xml marshal")
        ELSE Encoded(m.b, FALSE, "application/xml", "")
    ELSE IF t = "plain" THEN
        IF kind = "string" THEN Encoded(v, FALSE, "text/plain", "")
        ELSE IF kind = "bytes" THEN Encoded(v, TRUE, "text/plain", "")
        ELSE Encoded(<<>>, FALSE, "", "plain body expects string or []byte")
    ELSE
        LET m == jsonMarshal(kind, v) IN
        IF m.err # "" THEN Encoded(<<>>, FALSE, "", "json marshal")
        ELSE Encoded(m.b, FALSE, "application/json", "")

(***************************************************************************)
(* Perform: setup.                                                         *)
(***************************************************************************)
\* timeout is the variadic argument, a sequence of durations.
effectiveTimeout(timeout) ==
    IF Len(timeout) > 0 /\ timeout[1] > 0 THEN timeout[1] ELSE DefaultTimeout

\* The budget without the idempotency gate.
attemptBudgetAnyMethod(retry, method) ==
    IF retry THEN DefaultRetryAttempts ELSE 1

attemptBudget(retry, method) ==
    IF retry /\ isIdempotentMethod(method) THEN DefaultRetryAttempts ELSE 1

\* The client block.  rc is the object r.Client points to; the result is the
\* client the attempts use and the state of that object after the block.
\* ref "shared" is the pointer r.Client itself, ref "own" a client of the call.
NoClient == [ref |-> "none", Timeout |-> 0, Transport |-> ""]

\* The override written through the pointer (c := r.Client; c.Timeout = t).
resolveClientInPlace(rc, hasClient, timeout, t) ==
    IF ~hasClient THEN
        [client |-> [ref |-> "own", Timeout |-> t, Transport |-> "default"], rc |-> rc]
    ELSE IF Len(timeout) > 0 /\ timeout[1] > 0 THEN
        [client |-> [ref |-> "shared", Timeout |-> 0, Transport |-> ""],
         rc |-> [rc EXCEPT !.Timeout = t]]
    ELSE
        [client |-> [ref |-> "shared", Timeout |-> 0, Transport |-> ""], rc |-> rc]

resolveClient(rc, hasClient, timeout, t) ==
    IF ~hasClient THEN
        [client |-> [ref |-> "own", Timeout |-> t, Transport |-> "default"], rc |-> rc]
    ELSE IF Len(timeout) > 0 /\ timeout[1] > 0 THEN
        [client |-> [ref |-> "own", Timeout |-> t, Transport |-> rc.Transport], rc |-> rc]
    ELSE
        [client |-> [ref |-> "shared", Timeout |-> 0, Transport |-> ""], rc |-> rc]

\* The fields of the client a call sends through, read when it sends.
clientNow(c, rc) == IF c.ref = "shared" THEN rc ELSE [Timeout |-> c.Timeout, Transport |-> c.Transport]

(***************************************************************************)
(* Perform: one attempt.                                                   *)
(***************************************************************************)
\* http.NewRequestWithContext rejects a method that is not a token and a URL
\* that url.Parse rejects.  The backquote is written by its escape.
TokenSymbols ==
    {"!", "#", "$", "%", "&", "'", "*", "+", "-", ".", "^", "_", "\\x60", "|", "~"}
Digits == {"0", "1", "2", "3", "4", "5", "6", "7", "8", "9"}

isTokenChar(c) ==
    \/ \E k \in 1..26 : c = LowerAlpha[k] \/ c = UpperAlpha[k]
    \/ c \in Digits
    \/ c \in TokenSymbols

validMethod(method) ==
    Len(method) > 0 /\ \A k \in 1..Len(method) : isTokenChar(method[k])


(***************************************************************************)
(* url.Parse, which http.NewRequestWithContext applies to r.URL as given   *)
(* (not trimmed).  Each operator yields the error text, "" for none.  A    *)
(* host in brackets is parsed as toolchains up to Go 1.24 do.              *)
(***************************************************************************)
AsciiLetters == {LowerAlpha[k] : k \in 1..26} \cup {UpperAlpha[k] : k \in 1..26}
HexLower == <<"a", "b", "c", "d", "e", "f">>
HexUpper == <<"A", "B", "C", "D", "E", "F">>
DecDigits == <<"0", "1", "2", "3", "4", "5", "6", "7", "8", "9">>

\* The printable ASCII characters, from the space (32) to the tilde (126);
\* the backquote (96) is written by its escape.
Ascii ==
    <<" ", "!", "\"", "#", "$", "%", "&", "'", "(", ")", "*", "+", ",", "-", ".", "/",
     "0", "1", "2", "3", "4", "5", "6", "7", "8", "9", ":", ";", "<", "=", ">", "?",
     "@", "A", "B", "C", "D", "E", "F", "G", "H", "I", "J", "K", "L", "M", "N", "O",
     "P", "Q", "R", "S", "T", "U", "V", "W", "X", "Y", "Z", "[", "\\", "]", "^", "_",
     "\\x60", "a", "b", "c", "d", "e", "f", "g", "h", "i", "j", "k", "l", "m", "n", "o",
     "p", "q", "r", "s", "t", "u", "v", "w", "x", "y", "z", "{", "|", "}", "~">>

\* The modelled characters above U+007F: in UTF-8 all their bytes are >= 0x80.
NonAscii ==
    UnicodeSpace \cup {"\\u0131", "\\u017f", "\\u00e9", "\\u00c9", "\\u200b", "\\ufffd"}

ishex(c) ==
    \E k \in 1..10 : DecDigits[k] = c \/ (k <= 6 /\ (HexLower[k] = c \/ HexUpper[k] = c))

unhex(c) ==
    IF \E k \in 1..10 : DecDigits[k] = c
    THEN (CHOOSE k \in 1..10 : DecDigits[k] = c) - 1
    ELSE IF \E k \in 1..6 : HexLower[k] = c
    THEN (CHOOSE k \in 1..6 : HexLower[k] = c) + 9
    ELSE (CHOOSE k \in 1..6 : HexUpper[k] = c) + 9

\* strings.Index and strings.LastIndex for one character, 0 when absent.
Index(s, c) ==
    IF \E k \in 1..Len(s) : s[k] = c
    THEN CHOOSE k \in 1..Len(s) : s[k] = c /\ \A j \in 1..(k - 1) : s[j] # c
    ELSE 0

LastIndex(s, c) ==
    IF \E k \in 1..Len(s) : s[k] = c
    THEN CHOOSE k \in 1..Len(s) : s[k] = c /\ \A j \in (k + 1)..Len(s) : s[j] # c
    ELSE 0

HasPrefix(s, pre) == Len(s) >= Len(pre) /\ SubSeq(s, 1, Len(pre)) = pre

\* strings.Index for a text, 0 when absent.
IndexText(s, sub) ==
    LET at(k) == k + Len(sub) - 1 <= Len(s) /\ SubSeq(s, k, k + Len(sub) - 1) = sub
    IN  IF \E k \in 1..Len(s) : at(k)
        THEN CHOOSE k \in 1..Len(s) : at(k) /\ \A j \in 1..(k - 1) : ~at(j)
        ELSE 0

stringContainsCTLByte(s) == \E k \in 1..Len(s) : s[k] \in ControlChars

\* getScheme: the scheme, the rest and the error.
RECURSIVE getSchemeFrom(_, _)
getSchemeFrom(rawURL, i) ==
    IF i > Len(rawURL) THEN [scheme |-> <<>>, rest |-> rawURL, err |-> ""]
    ELSE IF rawURL[i] \in AsciiLetters THEN getSchemeFrom(rawURL, i + 1)
    ELSE IF rawURL[i] \in Digits \cup {"+", "-", "."} THEN
        IF i = 1 THEN [scheme |-> <<>>, rest |-> rawURL, err |-> ""]
        ELSE getSchemeFrom(rawURL, i + 1)
    ELSE IF rawURL[i] = ":" THEN
        IF i = 1 THEN [scheme |-> <<>>, rest |-> <<>>, err |-> "missing protocol scheme"]
        ELSE [scheme |-> SubSeq(rawURL, 1, i - 1),
              rest |-> SubSeq(rawURL, i + 1, Len(rawURL)), err |-> ""]
    ELSE [scheme |-> <<>>, rest |-> rawURL, err |-> ""]

getScheme(rawURL) == getSchemeFrom(rawURL, 1)

\* shouldEscape(c, encodeHost) for an ASCII character.
shouldEscapeHost(c) ==
    ~(\/ c \in AsciiLetters \cup Digits
      \/ c \in {"!", "$", "&", "'", "(", ")", "*", "+", ",", ";", "=", ":", "[", "]",
                "<", ">", "\""}
      \/ c \in {"-", "_", ".", "~"})

\* shouldEscape(v, encodeHost) for the byte an escape denotes.
shouldEscapeHostByte(v) ==
    IF v \in 32..126 THEN shouldEscapeHost(Ascii[v - 31]) ELSE TRUE

\* unescape: the checks it makes before decoding.  mode is "host", "zone" or
\* "other" (path, fragment, user and password: only the escapes are checked).
RECURSIVE unescapeFrom(_, _, _)
unescapeFrom(s, i, mode) ==
    IF i > Len(s) THEN ""
    ELSE IF s[i] = "%" THEN
        IF i + 2 > Len(s) \/ ~ishex(s[i + 1]) \/ ~ishex(s[i + 2])
        THEN "invalid URL escape"
        ELSE IF /\ mode = "host"
                /\ unhex(s[i + 1]) < 8
                /\ SubSeq(s, i, i + 2) # <<"%", "2", "5">>
        THEN "invalid URL escape"
        ELSE IF /\ mode = "zone"
                /\ SubSeq(s, i, i + 2) # <<"%", "2", "5">>
                /\ unhex(s[i + 1]) * 16 + unhex(s[i + 2]) # 32
                /\ shouldEscapeHostByte(unhex(s[i + 1]) * 16 + unhex(s[i + 2]))
        THEN "invalid URL escape"
        ELSE unescapeFrom(s, i + 3, mode)
    ELSE IF mode \in {"host", "zone"} /\ s[i] \notin NonAscii /\ shouldEscapeHost(s[i])
    THEN "invalid character in host name"
    ELSE unescapeFrom(s, i + 1, mode)

unescape(s, mode) == unescapeFrom(s, 1, mode)

validOptionalPort(port) ==
    \/ port = <<>>
    \/ port[1] = ":" /\ \A k \in 2..Len(port) : port[k] \in Digits

validUserinfo(s) ==
    \A k \in 1..Len(s) :
        \/ s[k] \in AsciiLetters \cup Digits
        \/ s[k] \in {"-", ".", "_", ":", "~", "!", "$", "&", "'", "(", ")", "*", "+",
                     ",", ";", "=", "%", "@"}

parseHost(host) ==
    LET close == LastIndex(host, "]")
        zone == IndexText(SubSeq(host, 1, close - 1), <<"%", "2", "5">>)
        colon == LastIndex(host, ":")
    IN  IF HasPrefix(host, <<"[">>) THEN
            IF close = 0 THEN "missing ']' in host"
            ELSE IF ~validOptionalPort(SubSeq(host, close + 1, Len(host)))
            THEN "invalid port after host"
            ELSE IF zone > 0 THEN
                IF unescape(SubSeq(host, 1, zone - 1), "host") # ""
                THEN unescape(SubSeq(host, 1, zone - 1), "host")
                ELSE IF unescape(SubSeq(host, zone, close - 1), "zone") # ""
                THEN unescape(SubSeq(host, zone, close - 1), "zone")
                ELSE unescape(SubSeq(host, close, Len(host)), "host")
            ELSE unescape(host, "host")
        ELSE IF colon > 0 /\ ~validOptionalPort(SubSeq(host, colon, Len(host)))
        THEN "invalid port after host"
        ELSE unescape(host, "host")

parseAuthority(authority) ==
    LET i == LastIndex(authority, "@")
        userinfo == SubSeq(authority, 1, i - 1)
        c == Index(userinfo, ":")
        username == IF c = 0 THEN userinfo ELSE SubSeq(userinfo, 1, c - 1)
        password == IF c = 0 THEN <<>> ELSE SubSeq(userinfo, c + 1, Len(userinfo))
    IN  IF parseHost(SubSeq(authority, i + 1, Len(authority))) # ""
        THEN parseHost(SubSeq(authority, i + 1, Len(authority)))
        ELSE IF i = 0 THEN ""
        ELSE IF ~validUserinfo(userinfo) THEN "invalid userinfo"
        ELSE IF unescape(username, "other") # "" THEN unescape(username, "other")
        ELSE unescape(password, "other")

\* parse(rawURL, false): rawURL is the text before the first "#".
urlParseNoFragment(rawURL) ==
    LET sch == getScheme(rawURL)
        q == Index(sch.rest, "?")
        rest == IF q = 0 THEN sch.rest ELSE SubSeq(sch.rest, 1, q - 1)
        slash == Index(rest, "/")
        segment == IF slash = 0 THEN rest ELSE SubSeq(rest, 1, slash - 1)
        afterSlashes == SubSeq(rest, 3, Len(rest))
        end == Index(afterSlashes, "/")
        authority == IF end = 0 THEN afterSlashes ELSE SubSeq(afterSlashes, 1, end - 1)
        path == IF end = 0 THEN <<>> ELSE SubSeq(afterSlashes, end, Len(afterSlashes))
    IN  IF stringContainsCTLByte(rawURL) THEN "invalid control character in URL"
        ELSE IF rawURL = <<"*">> THEN ""
        ELSE IF sch.err # "" THEN sch.err
        ELSE IF ~HasPrefix(rest, <<"/">>) /\ sch.scheme # <<>> THEN ""
        ELSE IF ~HasPrefix(rest, <<"/">>) /\ Index(segment, ":") > 0
        THEN "first path segment in URL cannot contain colon"
        ELSE IF /\ HasPrefix(rest, <<"/", "/">>)
                /\ sch.scheme # <<>> \/ ~HasPrefix(rest, <<"/", "/", "/">>)
        THEN IF parseAuthority(authority) # "" THEN parseAuthority(authority)
             ELSE unescape(path, "other")
        ELSE unescape(rest, "other")

\* url.Parse: the fragment is cut off first and checked last.
urlParse(rawURL) ==
    LET h == Index(rawURL, "#")
        u == IF h = 0 THEN rawURL ELSE SubSeq(rawURL, 1, h - 1)
        frag == IF h = 0 THEN <<>> ELSE SubSeq(rawURL, h + 1, Len(rawURL))
    IN  IF urlParseNoFragment(u) # "" THEN urlParseNoFragment(u)
        ELSE unescape(frag, "other")

\* The values of r.URL that calls are made with.
GoodURL == <<"h", "t", "t", "p", ":", "/", "/", "h">>
\* Blank URLs, URLs that url.Parse rejects, and a good one.
URLs ==
    {<<>>, <<" ">>, <<"\f">>, <<"\\u00a0", "\t">>,
     <<"u", "\t">>, GoodURL \o <<"\f">>, <<"%">>, <<" ">> \o GoodURL,
     GoodURL \o <<":", "x">>, GoodURL \o <<"/", "%", "4", "1">>, GoodURL}

\* url.Parse of those values, computed once.
ParsedURLs == [u \in URLs |-> urlParse(u)]

validURL(url) ==
    (IF url \in DOMAIN ParsedURLs THEN ParsedURLs[url] ELSE urlParse(url)) = ""

newRequestFails(method, url) == ~validMethod(method) \/ ~validURL(url)

\* The ctx check made for the first attempt only.
loopTopCtxOnce(i, attempts, lastResp, lastBody, cerr, method, url) ==
    IF ~(i <= attempts) THEN
        IF ~lastResp.isNil /\ lastResp.StatusCode >= 400
        THEN [go |-> FALSE,
              ret |-> Ret(lastResp, lastBody, Err("http error", "", lastResp.StatusCode, NoTErr))]
        ELSE [go |-> FALSE,
              ret |-> Ret(lastResp, lastBody, Err("request failed after attempts", "", attempts, NoTErr))]
    ELSE IF cerr # "nil" /\ i = 1 THEN
        [go |-> FALSE, ret |-> Ret(lastResp, lastBody, Err("ctx", cerr, 0, NoTErr))]
    ELSE IF newRequestFails(method, url) THEN
        [go |-> FALSE, ret |-> Ret(NilResp, NilBytes, Err("create request", "", 0, NoTErr))]
    ELSE [go |-> TRUE, ret |-> NoResult]

\* What the top of the loop body decides before anything is sent: the loop
\* condition, the ctx check and the request construction.  When the loop
\* condition fails the statements after the loop produce the result.
loopTop(i, attempts, lastResp, lastBody, cerr, method, url) ==
    IF ~(i <= attempts) THEN
        IF ~lastResp.isNil /\ lastResp.StatusCode >= 400
        THEN [go |-> FALSE,
              ret |-> Ret(lastResp, lastBody, Err("http error", "", lastResp.StatusCode, NoTErr))]
        ELSE [go |-> FALSE,
              ret |-> Ret(lastResp, lastBody, Err("request failed after attempts", "", attempts, NoTErr))]
    ELSE IF cerr # "nil" THEN
        [go |-> FALSE, ret |-> Ret(lastResp, lastBody, Err("ctx", cerr, 0, NoTErr))]
    ELSE IF newRequestFails(method, url) THEN
        [go |-> FALSE, ret |-> Ret(NilResp, NilBytes, Err("create request", "", 0, NoTErr))]
    ELSE [go |-> TRUE, ret |-> NoResult]

\* The last attempt counted as one that may still be retried.
retryOnErrorInclusive(retry, i, attempts, err) ==
    retry /\ i <= attempts /\ isRetryableError(err)

retryOnError(retry, i, attempts, err) ==
    retry /\ i < attempts /\ isRetryableError(err)

\* Read failures never retried.
retryOnReadNever(retry, i, attempts) == FALSE

retryOnRead(retry, i, attempts) == retry /\ i < attempts

\* The last attempt counted as one that may still be retried.
retryOnStatusInclusive(retry, i, attempts, code) ==
    retry /\ i <= attempts /\ isRetryableStatus(code)

retryOnStatus(retry, i, attempts, code) ==
    retry /\ i < attempts /\ isRetryableStatus(code)

\* Every status outside 1xx/2xx reported as an error.
statusResultNon2xx(resp, respBody) ==
    IF resp.StatusCode >= 300
    THEN Ret(resp, respBody, Err("http error", "", resp.StatusCode, NoTErr))
    ELSE Ret(resp, respBody, NilErr)

\* The error threshold off by one.
statusResultAbove400(resp, respBody) ==
    IF resp.StatusCode > 400
    THEN Ret(resp, respBody, Err("http error", "", resp.StatusCode, NoTErr))
    ELSE Ret(resp, respBody, NilErr)

\* The two returns that end a fully read attempt.
statusResult(resp, respBody) ==
    IF resp.StatusCode >= 400
    THEN Ret(resp, respBody, Err("http error", "", resp.StatusCode, NoTErr))
    ELSE Ret(resp, respBody, NilErr)

\* What follows a step of attempt i: sleep and continue (again), or return
\* ret; lastResp and lastBody as the step leaves them.
Step(again, lastResp, lastBody, ret) ==
    [again |-> again, lastResp |-> lastResp, lastBody |-> lastBody, ret |-> ret]

\* A failed send returning nothing of the earlier attempts.
afterDoDropLast(retry, i, attempts, terr, lastResp, lastBody) ==
    IF retryOnError(retry, i, attempts, terr)
    THEN Step(TRUE, lastResp, lastBody, NoResult)
    ELSE Step(FALSE, lastResp, lastBody,
              Ret(NilResp, NilBytes, Err("do request", "", 0, terr)))

\* What follows client.Do when it returned the error terr.
afterDo(retry, i, attempts, terr, lastResp, lastBody) ==
    IF retryOnError(retry, i, attempts, terr)
    THEN Step(TRUE, lastResp, lastBody, NoResult)
    ELSE Step(FALSE, lastResp, lastBody,
              Ret(lastResp, lastBody, Err("do request", "", 0, terr)))

\* A retried read failure that leaves lastResp and lastBody as they were.
afterReadNotRecorded(retry, i, attempts, resp, respBody, readErr, lastResp, lastBody) ==
    IF readErr # "" THEN
        IF retryOnRead(retry, i, attempts)
        THEN Step(TRUE, lastResp, lastBody, NoResult)
        ELSE Step(FALSE, lastResp, lastBody,
                  Ret(resp, NilBytes, Err("read response", readErr, 0, NoTErr)))
    ELSE
        IF retryOnStatus(retry, i, attempts, resp.StatusCode)
        THEN Step(TRUE, resp, respBody, NoResult)
        ELSE Step(FALSE, resp, respBody, statusResult(resp, respBody))

\* What follows io.ReadAll on the body of resp when it returned respBody and
\* readErr ("" for nil).
afterRead(retry, i, attempts, resp, respBody, readErr, lastResp, lastBody) ==
    IF readErr # "" THEN
        IF retryOnRead(retry, i, attempts)
        THEN Step(TRUE, resp, respBody, NoResult)
        ELSE Step(FALSE, lastResp, lastBody,
                  Ret(resp, NilBytes, Err("read response", readErr, 0, NoTErr)))
    ELSE
        IF retryOnStatus(retry, i, attempts, resp.StatusCode)
        THEN Step(TRUE, resp, respBody, NoResult)
        ELSE Step(FALSE, resp, respBody, statusResult(resp, respBody))

(***************************************************************************)
(* The environment: what client.Do can yield, and what io.ReadAll can      *)
(* yield on the body of the response.                                      *)
(***************************************************************************)
Statuses == {200, 304, 400, 404, 429, 500, 501, 503, 504}
ReadErrStatuses == {200, 404, 503}
RespBodies == {<<"o", "k">>, <<"n", "o">>}
ReadErrs == {"unexpected EOF", "connection reset"}
TransportErrs ==
    {TErr(FALSE, FALSE, FALSE), TErr(TRUE, TRUE, TRUE), TErr(TRUE, FALSE, TRUE),
     TErr(TRUE, FALSE, FALSE)}

\* One attempt as the transport saw it.  kind is "err" (client.Do failed),
\* "pending" (a response arrived, its body is not read yet), "resp" (the body
\* was read) or "readerr" (reading the body failed).
Outcome(kind, terr, status, body, readErr) ==
    [kind |-> kind, terr |-> terr, status |-> status, body |-> body, readErr |-> readErr]

ErrOutcomes == {Outcome("err", e, 0, <<>>, "") : e \in TransportErrs}
RespOutcomes == {Outcome("pending", NoTErr, s, <<>>, "") : s \in Statuses}

AllOutcomes == ErrOutcomes \cup RespOutcomes

\* A transport that answers 503, answers 200 or times out.
FewOutcomes ==
    {Outcome("pending", NoTErr, 503, <<>>, ""),
     Outcome("pending", NoTErr, 200, <<>>, ""),
     Outcome("err", TErr(TRUE, TRUE, TRUE), 0, <<>>, "")}

outcomesOf(srv) == IF srv = "flaky" THEN FewOutcomes ELSE AllOutcomes

\* What io.ReadAll returns: the bytes read and the error ("" for nil).
ReadResult(body, readErr) == [body |-> body, readErr |-> readErr]

\* A read that fails does so after the first byte of the body.
ReadErrResults == {ReadResult(<<"o">>, e) : e \in ReadErrs}

readsOf(srv, status) ==
    IF srv = "flaky"
    THEN {ReadResult(IF status = 200 THEN <<"o", "k">> ELSE <<"n", "o">>, "")}
    ELSE {ReadResult(b, "") : b \in RespBodies}
         \cup (IF status \in ReadErrStatuses THEN ReadErrResults ELSE {})

(***************************************************************************)
(* Inputs of a call.                                                       *)
(***************************************************************************)
Args(url, method, type, retry, hasClient, timeout, bodyKind) ==
    [URL |-> url, Method |-> method, Type |-> type, Retry |-> retry,
     hasClient |-> hasClient, timeout |-> timeout, bodyKind |-> bodyKind]


LoopMethods ==
    {MethodGet, <<"d","e","l","e","t","e">>, MethodPost, MethodPatch,
     <<"B","R","E","W">>, <<" ","G","E","T"," ">>, <<"\f","G","E","T">>}
Types == {"json", "xml", "plain"}
Timeouts == {<<>>, <<0>>, <<2000>>}

\* Every method, retry on and off, no body.
LoopInputs ==
    {Args(GoodURL, m, "json", r, FALSE, <<>>, "nil") : m \in LoopMethods, r \in BOOLEAN}

\* Blank and malformed URLs and methods, bodies that cannot be encoded.
ValidationInputs ==
    {Args(u, m, t, FALSE, FALSE, <<>>, k) :
        u \in URLs, m \in {<<>>, <<" ">>, MethodGet}, t \in {"", "plain"},
        k \in {"nil", "chan"}}

\* The body kinds under the formats, with retries; a []byte under the plain
\* format only, a pointer to a string under the json and plain formats.
BodyInputs ==
    {a \in {Args(GoodURL, MethodPut, t, TRUE, FALSE, <<>>, k) :
                t \in Types, k \in {"string", "bytes", "strptr", "chan"}} :
        /\ a.bodyKind = "bytes" => a.Type = "plain"
        /\ a.bodyKind = "strptr" => a.Type # "xml"}

\* Injected client or not, every timeout argument; retries with the injected
\* client.
ClientInputs ==
    {a \in {Args(GoodURL, MethodGet, "json", r, c, t, "nil") :
                r \in BOOLEAN, c \in BOOLEAN, t \in Timeouts} :
        a.Retry => a.hasClient}

Inputs == LoopInputs \cup ValidationInputs \cup BodyInputs \cup ClientInputs

IdleArgs == Args(<<>>, <<>>, "", FALSE, FALSE, <<>>, "nil")

\* The caller's body value, and the value a caller writes over it: a store
\* into byte k of a []byte puts BodyB[k] where BodyA[k] was (or back).
BodyA == <<"a", "<", "\"">>
BodyB == <<"X", "&", "\f">>
initialBody(kind) == IF kind \in {"string", "bytes", "strptr"} THEN BodyA ELSE <<>>

\* The caller's client as the test builds it: Timeout 1s, its own transport.
InjectedClient == [Timeout |-> 1000, Transport |-> "injected"]

\* No predicate applied yet; no sleepBackoff call in progress.
IdleProbe == [kind |-> "none", code |-> 0, method |-> <<>>, out |-> FALSE]
IdleNap ==
    [pc |-> "idle", attempt |-> 0, d |-> 0, elapsed |-> 0,
     ctxDone |-> FALSE, doneAt |-> 0, by |-> ""]

InitLoc ==
    [Type |-> "", t |-> 0, hasBody |-> FALSE, payload |-> <<>>, shared |-> FALSE,
     contentType |-> "", attempts |-> 0, client |-> NoClient, i |-> 0,
     resp |-> NilResp, lastResp |-> NilResp, lastBody |-> NilBytes]

\* One call.  The call with the []byte body runs against the transport that
\* answers 503, answers 200 or times out; every other call against any
\* transport.
Init ==
    /\ pc = [p \in Calls |-> IF p = 1 THEN "init" ELSE "off"]
    /\ \E a \in Inputs : args = [p \in Calls |-> IF p = 1 THEN a ELSE IdleArgs]
    /\ bodyVal = [p \in Calls |-> initialBody(args[p].bodyKind)]
    /\ writes = [p \in Calls |-> 0]
    /\ ctxErr = [p \in Calls |-> "nil"]
    /\ rclient = InjectedClient
    /\ server = IF args[1].bodyKind = "bytes" THEN "flaky" ELSE "any"
    /\ loc = [p \in Calls |-> InitLoc]
    /\ hist = [p \in Calls |-> <<>>]
    /\ sleeps = [p \in Calls |-> <<>>]
    /\ result = [p \in Calls |-> NoResult]
    /\ probe = IdleProbe
    /\ nap = IdleNap

(***************************************************************************)
(* Actions of call p.                                                      *)
(***************************************************************************)
Return(p, ret) ==
    /\ pc' = [pc EXCEPT ![p] = "done"]
    /\ result' = [result EXCEPT ![p] = ret]

\* Perform up to the loop: validation, defaults, encoding, budget, client.
Begin(p) ==
    /\ pc[p] = "init"
    /\ LET a == args[p]
           type == IF a.Type = "" THEN "json" ELSE a.Type
           t == effectiveTimeout(a.timeout)
           enc == IF a.bodyKind # "nil"
                  THEN encodeBody(type, a.bodyKind, bodyVal[p])
                  ELSE Encoded(<<>>, FALSE, "", "")
           rc == resolveClient(rclient, a.hasClient, a.timeout, t)
       IN  IF TrimSpace(a.URL) = <<>> THEN
               /\ Return(p, Ret(NilResp, NilBytes, Err("URL is empty", "", 0, NoTErr)))
               /\ UNCHANGED <<loc, rclient>>
           ELSE IF TrimSpace(a.Method) = <<>> THEN
               /\ Return(p, Ret(NilResp, NilBytes, Err("Method is empty", "", 0, NoTErr)))
               /\ UNCHANGED <<loc, rclient>>
           ELSE IF enc.err # "" THEN
               /\ Return(p, Ret(NilResp, NilBytes, Err("encode", enc.err, 0, NoTErr)))
               /\ UNCHANGED <<loc, rclient>>
           ELSE
               /\ pc' = [pc EXCEPT ![p] = "top"]
               /\ loc' = [loc EXCEPT ![p] =
                     [Type |-> type, t |-> t, hasBody |-> a.bodyKind # "nil",
                      payload |-> enc.b, shared |-> enc.shared,
                      contentType |-> enc.ct,
                      attempts |-> attemptBudget(a.Retry, a.Method),
                      client |-> rc.client, i |-> 1,
                      resp |-> NilResp, lastResp |-> NilResp, lastBody |-> NilBytes]]
               /\ rclient' = rc.rc
               /\ UNCHANGED result
    /\ UNCHANGED <<args, bodyVal, writes, ctxErr, server, hist, sleeps, probe, nap>>

\* The loop condition, the ctx check and the request construction.
AttemptStart(p) ==
    /\ pc[p] = "top"
    /\ LET l == loc[p]
           d == loopTop(l.i, l.attempts, l.lastResp, l.lastBody, ctxErr[p],
                        args[p].Method, args[p].URL)
       IN  IF d.go
           THEN pc' = [pc EXCEPT ![p] = "send"] /\ UNCHANGED result
           ELSE Return(p, d.ret)
    /\ UNCHANGED <<args, bodyVal, writes, ctxErr, rclient, server, loc, hist, sleeps, probe, nap>>

\* The bytes a reader over payload yields now: a slice that shares the caller's
\* backing array shows the caller's current content.
payloadNow(p) == IF loc[p].shared THEN bodyVal[p] ELSE loc[p].payload

\* client.Do and, when it fails, the decision that follows.
Send(p) ==
    /\ pc[p] = "send"
    /\ \E o \in outcomesOf(server) :
        LET l == loc[p]
            c == clientNow(l.client, rclient)
            d == afterDo(args[p].Retry, l.i, l.attempts, o.terr, l.lastResp, l.lastBody)
            sent == [attempt |-> l.i, o |-> o, hasBody |-> l.hasBody,
                     payload |-> IF l.hasBody THEN payloadNow(p) ELSE <<>>,
                     timeout |-> c.Timeout, transport |-> c.Transport]
        IN  /\ hist' = [hist EXCEPT ![p] = Append(@, sent)]
            /\ IF o.kind = "err" THEN
                   /\ loc' = [loc EXCEPT ![p].lastResp = d.lastResp,
                                         ![p].lastBody = d.lastBody]
                   /\ IF d.again
                      THEN pc' = [pc EXCEPT ![p] = "sleep"] /\ UNCHANGED result
                      ELSE Return(p, d.ret)
               ELSE
                   /\ loc' = [loc EXCEPT ![p].resp = Resp(l.i, o.status)]
                   /\ pc' = [pc EXCEPT ![p] = "read"]
                   /\ UNCHANGED result
    /\ UNCHANGED <<args, bodyVal, writes, ctxErr, rclient, server, sleeps, probe, nap>>

\* io.ReadAll(resp.Body), resp.Body.Close() and the decision that follows.
Read(p) ==
    /\ pc[p] = "read"
    /\ \E r \in readsOf(server, loc[p].resp.StatusCode) :
        LET l == loc[p]
            d == afterRead(args[p].Retry, l.i, l.attempts, l.resp, Bytes(r.body),
                           r.readErr, l.lastResp, l.lastBody)
            o == Outcome(IF r.readErr = "" THEN "resp" ELSE "readerr", NoTErr,
                         l.resp.StatusCode, r.body, r.readErr)
        IN  /\ hist' = [hist EXCEPT ![p][Len(hist[p])].o = o]
            /\ loc' = [loc EXCEPT ![p].resp = NilResp,
                                  ![p].lastResp = d.lastResp,
                                  ![p].lastBody = d.lastBody]
            /\ IF d.again
               THEN pc' = [pc EXCEPT ![p] = "sleep"] /\ UNCHANGED result
               ELSE Return(p, d.ret)
    /\ UNCHANGED <<args, bodyVal, writes, ctxErr, rclient, server, sleeps, probe, nap>>

\* A loop whose counter does not advance on a retry.
SleepTimerNoAdvance(p) ==
    /\ pc[p] = "sleep"
    /\ sleeps' = [sleeps EXCEPT ![p] =
                     Append(@, [attempt |-> loc[p].i, d |-> backoffDelay(loc[p].i), by |-> "timer"])]
    /\ pc' = [pc EXCEPT ![p] = "top"]
    /\ UNCHANGED <<args, bodyVal, writes, ctxErr, rclient, server, loc, hist, result, probe, nap>>

\* sleepBackoff(ctx, i) returns because its timer fired; the loop continues.
SleepTimer(p) ==
    /\ pc[p] = "sleep"
    /\ sleeps' = [sleeps EXCEPT ![p] =
                     Append(@, [attempt |-> loc[p].i, d |-> backoffDelay(loc[p].i), by |-> "timer"])]
    /\ loc' = [loc EXCEPT ![p].i = @ + 1]
    /\ pc' = [pc EXCEPT ![p] = "top"]
    /\ UNCHANGED <<args, bodyVal, writes, ctxErr, rclient, server, hist, result, probe, nap>>

\* sleepBackoff(ctx, i) returns because ctx.Done() is closed.
SleepCancelled(p) ==
    /\ pc[p] = "sleep"
    /\ ctxErr[p] # "nil"
    /\ sleeps' = [sleeps EXCEPT ![p] =
                     Append(@, [attempt |-> loc[p].i, d |-> backoffDelay(loc[p].i), by |-> "ctx"])]
    /\ loc' = [loc EXCEPT ![p].i = @ + 1]
    /\ pc' = [pc EXCEPT ![p] = "top"]
    /\ UNCHANGED <<args, bodyVal, writes, ctxErr, rclient, server, hist, result, probe, nap>>

(***************************************************************************)
(* Actions of the environment.                                             *)
(***************************************************************************)
\* The caller cancels ctx, or its deadline passes, while the call runs.
Cancel(p) ==
    /\ pc[p] \in {"init", "top", "send", "read", "sleep"}
    /\ ctxErr[p] = "nil"
    /\ \E e \in {"canceled", "deadline"} : ctxErr' = [ctxErr EXCEPT ![p] = e]
    /\ UNCHANGED <<pc, args, bodyVal, writes, rclient, server, loc, hist, sleeps, result, probe, nap>>

\* The caller (its transport, another goroutine) writes the body value it
\* passed, at any moment of the call.  A []byte is written one byte at a time:
\* each store is a step of its own, so that a send can see any mixture of old
\* and new bytes, and a store can land before the body is encoded.  The
\* string behind a pointer is replaced by one assignment.
MutateBody(p) ==
    /\ pc[p] \in {"init", "top", "send", "read", "sleep"}
    /\ args[p].bodyKind \in {"bytes", "strptr"}
    /\ writes[p] < MaxWrites
    /\ writes' = [writes EXCEPT ![p] = @ + 1]
    /\ IF args[p].bodyKind = "bytes"
       THEN \E k \in 1..Len(bodyVal[p]) :
                bodyVal' = [bodyVal EXCEPT ![p][k] =
                               IF @ = BodyA[k] THEN BodyB[k] ELSE BodyA[k]]
       ELSE bodyVal' = [bodyVal EXCEPT ![p] = IF @ = BodyA THEN BodyB ELSE BodyA]
    /\ UNCHANGED <<pc, args, ctxErr, rclient, server, loc, hist, sleeps, result, probe, nap>>

Next ==
    \E p \in Calls :
        \/ Begin(p)
        \/ AttemptStart(p)
        \/ Send(p)
        \/ Read(p)
        \/ SleepTimer(p)
        \/ SleepCancelled(p)
        \/ Cancel(p)
        \/ MutateBody(p)

Spec == Init /\ [][Next]_vars

(***************************************************************************)
(* A call that is scheduled: its own steps are taken, every send and body  *)
(* read completes and every backoff timer fires.  The caller is under no   *)
(* obligation to cancel or to touch its buffer.                            *)
(***************************************************************************)
Progress(p) ==
    \/ Begin(p) \/ AttemptStart(p) \/ Send(p) \/ Read(p)
    \/ SleepTimer(p) \/ SleepCancelled(p)

SpecLive == Init /\ [][Next]_vars /\ \A p \in Calls : WF_vars(Progress(p))

(***************************************************************************)
(* Two calls that run concurrently against the same injected client, with  *)
(* a transport that answers 503, answers 200 or times out.  The first call *)
(* may be the one with a []byte body.                                      *)
(***************************************************************************)
ConcTimeouts == {<<>>, <<2000>>, <<5000>>}
ConcInputs ==
    {Args(GoodURL, MethodGet, "json", TRUE, TRUE, t, "nil") : t \in ConcTimeouts}
    \cup {Args(GoodURL, MethodPost, "plain", TRUE, TRUE, <<5000>>, "bytes")}
InitConc ==
    /\ pc = [p \in Calls |-> "init"]
    /\ args \in {f \in [Calls -> ConcInputs] : f[2].bodyKind = "nil"}
    /\ bodyVal = [p \in Calls |-> initialBody(args[p].bodyKind)]
    /\ writes = [p \in Calls |-> 0]
    /\ ctxErr = [p \in Calls |-> "nil"]
    /\ rclient = InjectedClient
    /\ server = "flaky"
    /\ loc = [p \in Calls |-> InitLoc]
    /\ hist = [p \in Calls |-> <<>>]
    /\ sleeps = [p \in Calls |-> <<>>]
    /\ result = [p \in Calls |-> NoResult]
    /\ probe = IdleProbe
    /\ nap = IdleNap

SpecConc == InitConc /\ [][Next]_vars

(***************************************************************************)
(* The retry-policy functions on their own.  A probe applies one predicate *)
(* to one input.  A nap is one sleepBackoff(ctx, attempt) call: it         *)
(* computes d, starts the timer and blocks in the select until ctx.Done()  *)
(* or timer.C is ready; time passes only while neither is.  The delay is a *)
(* time.Duration, an int64 of nanoseconds, which doubling 200ms does not   *)
(* overflow for any attempt up to 36.                                      *)
(***************************************************************************)
\* The largest attempt index sleepBackoff is called with here.
MaxBackoffAttempt == 3

\* The step of the clock: half the base delay.
Tick == DefaultBaseBackoff \div 2

StatusCodes == 100..599
MethodTexts ==
    {<<"G", "E", "T">>,
     <<"g", "e", "t">>,
     <<" ", "G", "e", "t", " ">>,
     <<"H", "E", "A", "D">>,
     <<"h", "e", "a", "d", "\r", "\n">>,
     <<"P", "U", "T">>,
     <<"\t", "P", "U", "T", "\n">>,
     <<"p", "u", "t">>,
     <<"D", "E", "L", "E", "T", "E">>,
     <<"D", "e", "l", "e", "t", "e">>,
     <<"O", "P", "T", "I", "O", "N", "S">>,
     <<" ", " ", "o", "p", "t", "i", "o", "n", "s">>,
     <<"T", "R", "A", "C", "E">>,
     <<"t", "r", "a", "c", "e", " ">>,
     <<"P", "O", "S", "T">>,
     <<"p", "o", "s", "t">>,
     <<" ", "P", "O", "S", "T", " ">>,
     <<"P", "A", "T", "C", "H">>,
     <<"p", "a", "t", "c", "h">>,
     <<>>,
     <<" ", " ">>,
     <<"G", "E", "T", "S">>,
     <<"G", "E">>,
     <<"G", " ", "E", "T">>,
     <<"P", "U", "T", "T">>,
     <<"C", "O", "N", "N", "E", "C", "T">>,
     <<"B", "R", "E", "W">>,
     <<"g", "e", "t", " ", "p", "u", "t">>,
     <<"\f", "G", "E", "T", "\\v">>,
     <<"\\u00a0", "p", "u", "t", "\\u0085">>,
     <<"o", "p", "t", "\\u0131", "o", "n", "s">>,
     <<"\\u2003", "T", "R", "A", "C", "E", "\\u3000">>,
     <<"\\u200b", "G", "E", "T">>,
     <<"p", "o", "\\u017f", "t">>,
     <<"G", "\f", "E", "T">>,
     <<"d", "\\u00e9", "l", "e", "t", "e">>}

InitPolicy ==
    /\ pc = [p \in Calls |-> "off"]
    /\ args = [p \in Calls |-> IdleArgs]
    /\ bodyVal = [p \in Calls |-> <<>>]
    /\ writes = [p \in Calls |-> 0]
    /\ ctxErr = [p \in Calls |-> "nil"]
    /\ rclient = InjectedClient
    /\ server = "any"
    /\ loc = [p \in Calls |-> InitLoc]
    /\ hist = [p \in Calls |-> <<>>]
    /\ sleeps = [p \in Calls |-> <<>>]
    /\ result = [p \in Calls |-> NoResult]
    /\ probe = IdleProbe
    /\ nap = IdleNap

ProbeStatus ==
    /\ probe.kind = "none"
    /\ \E code \in StatusCodes :
        probe' = [kind |-> "status", code |-> code, method |-> <<>>,
                  out |-> isRetryableStatus(code)]
    /\ UNCHANGED <<callVars, nap>>

ProbeMethod ==
    /\ probe.kind = "none"
    /\ \E method \in MethodTexts :
        probe' = [kind |-> "method", code |-> 0, method |-> method,
                  out |-> isIdempotentMethod(method)]
    /\ UNCHANGED <<callVars, nap>>

\* The next application of a predicate.
ProbeAgain ==
    /\ probe.kind # "none"
    /\ probe' = IdleProbe
    /\ UNCHANGED <<callVars, nap>>

\* sleepBackoff up to the select; ctx may already be done when it is called.
NapStart ==
    /\ nap.pc = "idle"
    /\ \E attempt \in 1..MaxBackoffAttempt, done \in BOOLEAN :
        nap' = [pc |-> "select", attempt |-> attempt, d |-> backoffDelay(attempt),
                elapsed |-> 0, ctxDone |-> done, doneAt |-> 0, by |-> ""]
    /\ UNCHANGED <<callVars, probe>>

\* Time passes while the select blocks: neither channel is ready.
NapTick ==
    /\ nap.pc = "select"
    /\ ~nap.ctxDone
    /\ nap.elapsed < nap.d
    /\ nap' = [nap EXCEPT !.elapsed = @ + Tick]
    /\ UNCHANGED <<callVars, probe>>

\* The caller's context is cancelled while the select waits.
NapCancel ==
    /\ nap.pc = "select"
    /\ ~nap.ctxDone
    /\ nap' = [nap EXCEPT !.ctxDone = TRUE, !.doneAt = nap.elapsed]
    /\ UNCHANGED <<callVars, probe>>

\* case <-ctx.Done(): return
NapCtx ==
    /\ nap.pc = "select"
    /\ nap.ctxDone
    /\ nap' = [nap EXCEPT !.pc = "returned", !.by = "ctx"]
    /\ UNCHANGED <<callVars, probe>>

\* case <-timer.C: return
NapTimer ==
    /\ nap.pc = "select"
    /\ nap.elapsed >= nap.d
    /\ nap' = [nap EXCEPT !.pc = "returned", !.by = "timer"]
    /\ UNCHANGED <<callVars, probe>>

\* The next sleepBackoff call.
NapAgain ==
    /\ nap.pc = "returned"
    /\ nap' = IdleNap
    /\ UNCHANGED <<callVars, probe>>

NextPolicy ==
    \/ ProbeStatus
    \/ ProbeMethod
    \/ ProbeAgain
    \/ NapStart
    \/ NapTick
    \/ NapCancel
    \/ NapCtx
    \/ NapTimer
    \/ NapAgain

SpecPolicy == InitPolicy /\ [][NextPolicy]_vars

(***************************************************************************)
(* Vocabulary of the properties, stated from the documented behaviour and  *)
(* not through the operators above.                                        *)
(***************************************************************************)
RetryableStatusSet == {429, 500, 502, 503, 504}
IdempotentNames ==
    {<<"G","E","T">>, <<"H","E","A","D">>, <<"P","U","T">>,
     <<"D","E","L","E","T","E">>, <<"O","P","T","I","O","N","S">>,
     <<"T","R","A","C","E">>}
RetryingCall(p) ==
    args[p].Retry /\ ToUpper(TrimSpace(args[p].Method)) \in IdempotentNames
NonIdempotentRetry(p) ==
    args[p].Retry /\ ToUpper(TrimSpace(args[p].Method)) \notin IdempotentNames

\* Attempt j of call p, as the transport saw it.
Sent(p, j) == hist[p][j]
FullResp(p, j) == Sent(p, j).o.kind = "resp"
GotResp(p, j) == Sent(p, j).o.kind \in {"resp", "readerr"}
FailedRetryably(p, j) ==
    /\ Sent(p, j).o.kind = "err"
    /\ Sent(p, j).o.terr.net
    /\ Sent(p, j).o.terr.timeout \/ Sent(p, j).o.terr.temporary
FailedFatally(p, j) == Sent(p, j).o.kind = "err" /\ ~FailedRetryably(p, j)
RespOf(p, j) == [isNil |-> FALSE, id |-> j, StatusCode |-> Sent(p, j).o.status]
BodyOf(p, j) == [isNil |-> FALSE, b |-> Sent(p, j).o.body]
Done(p) == pc[p] = "done"
PositiveOverride(p) == Len(args[p].timeout) > 0 /\ args[p].timeout[1] > 0

\* C1: a call sends at most 3 requests when Retry is set and the method is
\* idempotent and at most 1 otherwise, and the budget it loops under is that
\* number from the first attempt on.
C1_AttemptBudget ==
    \A p \in Calls :
        LET b == IF RetryingCall(p) THEN 3 ELSE 1
        IN  /\ Len(hist[p]) <= b
            /\ pc[p] \in {"top", "send", "sleep"} => loc[p].attempts = b
            /\ hist[p] # <<>> => loc[p].attempts = b

C1_Witness ==
    \E p \in Calls : Done(p) /\ RetryingCall(p) /\ Len(hist[p]) = 3

\* C2: with Retry set and a method that is not idempotent, a first attempt
\* answered by a retryable status or failed by a timeout/temporary transport
\* error is the only attempt: the call has returned an error and never slept.
C2_NonIdempotentSingleAttempt ==
    \A p \in Calls :
        (/\ NonIdempotentRetry(p)
         /\ hist[p] # <<>>
         /\ \/ GotResp(p, 1) /\ Sent(p, 1).o.status \in RetryableStatusSet
            \/ FailedRetryably(p, 1))
        => /\ Len(hist[p]) = 1
           /\ Done(p)
           /\ result[p].err.kind # "nil"
           /\ sleeps[p] = <<>>

C2_Witness ==
    \E p \in Calls :
        /\ NonIdempotentRetry(p) /\ Done(p) /\ Len(hist[p]) = 1
        /\ FailedRetryably(p, 1)
        /\ result[p].err.kind = "do request"

\* C3: in a retrying call whose first k attempts were each answered by a fully
\* read retryable status and whose attempt k+1 was answered by a fully read
\* status below 400, attempt k+1 is the last one and the call returns its
\* response and body with a nil error.
C3_RetryStatusThenSuccess ==
    \A p \in Calls : \A k \in 0..2 :
        (/\ RetryingCall(p)
         /\ Len(hist[p]) >= k + 1
         /\ \A j \in 1..k : FullResp(p, j) /\ Sent(p, j).o.status \in RetryableStatusSet
         /\ FullResp(p, k + 1) /\ Sent(p, k + 1).o.status < 400)
        => /\ Len(hist[p]) = k + 1
           /\ Done(p)
           /\ result[p] = [resp |-> RespOf(p, k + 1), body |-> BodyOf(p, k + 1),
                           err |-> NilErr]

C3_Witness ==
    \E p \in Calls :
        /\ RetryingCall(p) /\ Done(p) /\ Len(hist[p]) = 3
        /\ FullResp(p, 1) /\ Sent(p, 1).o.status = 500
        /\ FullResp(p, 2) /\ Sent(p, 2).o.status = 500
        /\ FullResp(p, 3) /\ Sent(p, 3).o.status = 200
        /\ result[p].body = [isNil |-> FALSE, b |-> <<"o", "k">>]
        /\ result[p].err.kind = "nil"

\* C4: in a retrying call whose first k attempts failed in the transport with
\* a timeout/temporary error and whose attempt k+1 was answered by a fully read
\* status below 400, attempt k+1 is the last one and its body is returned with
\* a nil error; and a transport error that is not of that kind is the last
\* attempt of its call, which returns a "do request" error wrapping it.
C4_RetryTransportError ==
    \A p \in Calls :
        /\ \A k \in 0..2 :
            (/\ RetryingCall(p)
             /\ Len(hist[p]) >= k + 1
             /\ \A j \in 1..k : FailedRetryably(p, j)
             /\ FullResp(p, k + 1) /\ Sent(p, k + 1).o.status < 400)
            => /\ Len(hist[p]) = k + 1
               /\ Done(p)
               /\ result[p].body = BodyOf(p, k + 1)
               /\ result[p].err = NilErr
        /\ \A j \in 1..Len(hist[p]) :
            (RetryingCall(p) /\ FailedFatally(p, j))
            => /\ Len(hist[p]) = j
               /\ Done(p)
               /\ result[p].err.kind = "do request"
               /\ result[p].err.terr = Sent(p, j).o.terr

C4_Witness ==
    \E p \in Calls :
        /\ RetryingCall(p) /\ Done(p) /\ Len(hist[p]) = 3
        /\ FailedRetryably(p, 1) /\ FailedRetryably(p, 2)
        /\ FullResp(p, 3) /\ Sent(p, 3).o.status = 200
        /\ result[p].err.kind = "nil"

\* C5: a call whose last attempt was answered by a fully read status of 400 or
\* more returns a non-nil error with that attempt's response and body.
C5_ErrorStatusReturned ==
    \A p \in Calls :
        (/\ Done(p)
         /\ hist[p] # <<>>
         /\ FullResp(p, Len(hist[p]))
         /\ Sent(p, Len(hist[p])).o.status >= 400)
        => /\ result[p].err.kind # "nil"
           /\ result[p].resp = RespOf(p, Len(hist[p]))
           /\ result[p].body = BodyOf(p, Len(hist[p]))

\* The last permitted attempt of a retrying call was answered 503.
C5_Witness ==
    \E p \in Calls :
        /\ Done(p) /\ Len(hist[p]) = 3
        /\ FullResp(p, 3) /\ Sent(p, 3).o.status = 503
        /\ result[p].err.kind = "http error"
        /\ ~result[p].resp.isNil

\* C6: in a retrying call, an attempt answered by a fully read status of 400
\* or more outside {429,500,502,503,504} is the last attempt: the call has
\* returned an "http error" with that response and body, and it slept only
\* before that attempt, never after it.
C6_NonRetryableStatusEnds ==
    \A p \in Calls : \A j \in 1..Len(hist[p]) :
        (/\ RetryingCall(p)
         /\ FullResp(p, j)
         /\ Sent(p, j).o.status >= 400
         /\ Sent(p, j).o.status \notin RetryableStatusSet)
        => /\ Len(hist[p]) = j
           /\ Done(p)
           /\ Len(sleeps[p]) = j - 1
           /\ result[p].err.kind = "http error"
           /\ result[p].resp = RespOf(p, j)
           /\ result[p].body = BodyOf(p, j)

C6_Witness ==
    \E p \in Calls :
        /\ RetryingCall(p) /\ Done(p) /\ Len(hist[p]) = 1
        /\ FullResp(p, 1) /\ Sent(p, 1).o.status = 400
        /\ sleeps[p] = <<>>
        /\ result[p].err.kind = "http error"

\* C7: a call with an injected client and a positive timeout override leaves
\* the injected client as it was, and sends each of its requests with the
\* overridden timeout through the injected client's transport.
C7_InjectedClientNotMutated ==
    \A p \in Calls :
        (args[p].hasClient /\ PositiveOverride(p))
        => /\ rclient = [Timeout |-> 1000, Transport |-> "injected"]
           /\ \A j \in 1..Len(hist[p]) :
                /\ Sent(p, j).timeout = args[p].timeout[1]
                /\ Sent(p, j).transport = "injected"

C7_Witness ==
    \E p \in Calls :
        /\ args[p].hasClient /\ PositiveOverride(p)
        /\ Done(p) /\ Len(hist[p]) = 3
        /\ rclient.Timeout = 1000

\* C8: with two calls in flight on one injected client, under every
\* interleaving the client's timeout field keeps its value and each request
\* of a call that overrides the timeout carries that call's own override.
C8_ConcurrentOverridesIsolated ==
    /\ rclient = [Timeout |-> 1000, Transport |-> "injected"]
    /\ \A p \in Calls :
        PositiveOverride(p) =>
            \A j \in 1..Len(hist[p]) : Sent(p, j).timeout = args[p].timeout[1]

\* Both calls have sent, with different overrides, and one sent again after
\* the other's first request.
C8_Witness ==
    /\ PositiveOverride(1) /\ PositiveOverride(2)
    /\ args[1].timeout[1] # args[2].timeout[1]
    /\ Len(hist[1]) >= 2 /\ Len(hist[2]) >= 1
    /\ pc[2] \in {"sleep", "top", "send"}
    /\ Done(1)

\* C9: every attempt of a call carries the payload of its first attempt.
C9_SamePayloadEveryAttempt ==
    \A p \in Calls : \A j \in 1..Len(hist[p]) :
        Sent(p, j).payload = Sent(p, 1).payload

\* The last attempt of call p that obtained a response, 0 if none did.
LastGot(p) ==
    LET got == {j \in 1..Len(hist[p]) : GotResp(p, j)}
    IN  IF got = {} THEN 0 ELSE CHOOSE j \in got : \A k \in got : k <= j

\* C10: a call that begins an attempt with its context cancelled or past its
\* deadline returns in that step without sending: the context's error, with
\* the response and body of the last attempt that obtained a response, nil if
\* none did; and a call that has returned sends nothing more.
C10_CancelledBeforeAttempt ==
    [][\A p \in Calls :
        /\ (/\ pc[p] = "top"
            /\ ctxErr[p] # "nil"
            /\ Len(hist[p]) < (IF RetryingCall(p) THEN 3 ELSE 1)
            /\ pc'[p] # "top")
           => /\ pc'[p] = "done"
              /\ hist'[p] = hist[p]
              /\ result'[p].err.kind = "ctx"
              /\ result'[p].err.cause = ctxErr[p]
              /\ result'[p].resp =
                    IF LastGot(p) = 0 THEN NilResp ELSE RespOf(p, LastGot(p))
              /\ result'[p].body =
                    IF LastGot(p) = 0 THEN NilBytes ELSE BodyOf(p, LastGot(p))
        /\ Done(p) => hist'[p] = hist[p] /\ pc'[p] = "done"
      ]_vars

\* Cancellation fired during the backoff sleep after a recorded 503.
C10_Witness ==
    \E p \in Calls :
        /\ Done(p) /\ result[p].err.kind = "ctx"
        /\ Len(hist[p]) = 1 /\ FullResp(p, 1) /\ Sent(p, 1).o.status = 503
        /\ Len(sleeps[p]) = 1 /\ sleeps[p][1].by = "ctx"
        /\ ~result[p].resp.isNil

\* Blank text: nothing but white space, ASCII or Unicode.
WhiteSpace ==
    {" ", "\t", "\n", "\\v", "\f", "\r", "\\u0085", "\\u00a0", "\\u1680", "\\u2000",
     "\\u2001", "\\u2002", "\\u2003", "\\u2004", "\\u2005", "\\u2006", "\\u2007",
     "\\u2008", "\\u2009", "\\u200a", "\\u2028", "\\u2029", "\\u202f", "\\u205f",
     "\\u3000"}
Blank(s) == \A k \in 1..Len(s) : s[k] \in WhiteSpace
\* A body no encoder of the call's format accepts.
Unencodable(p) ==
    \/ args[p].bodyKind = "chan"
    \/ args[p].Type = "plain" /\ args[p].bodyKind \notin {"nil", "string", "bytes"}

\* C11: a call given a blank URL, a blank method or a body that cannot be
\* encoded returns in its first step, before any request: nil response, nil
\* body, and the error "URL is empty" for a blank URL, else "Method is empty"
\* for a blank method, else the encoding error.
C11_FailFast ==
    \A p \in Calls :
        (/\ pc[p] \notin {"off", "init"}
         /\ Blank(args[p].URL) \/ Blank(args[p].Method) \/ Unencodable(p))
        => /\ Done(p)
           /\ hist[p] = <<>>
           /\ result[p].resp = NilResp
           /\ result[p].body = NilBytes
           /\ result[p].err.kind =
                IF Blank(args[p].URL) THEN "URL is empty"
                ELSE IF Blank(args[p].Method) THEN "Method is empty"
                ELSE "encode"

\* Both the URL and the method are blank, and the body cannot be encoded.
C11_Witness ==
    \E p \in Calls :
        /\ Done(p) /\ Blank(args[p].URL) /\ Blank(args[p].Method) /\ Unencodable(p)
        /\ result[p].err.kind = "URL is empty"
        /\ hist[p] = <<>>

\* C12: a call that returned a nil error sent a last attempt that was answered
\* by a fully read status below 400, and returned that attempt's response and
\* body; so every other way of finishing returns an error.
C12_NilErrorOnlyOnSuccess ==
    \A p \in Calls :
        (Done(p) /\ result[p].err.kind = "nil")
        => /\ hist[p] # <<>>
           /\ FullResp(p, Len(hist[p]))
           /\ Sent(p, Len(hist[p])).o.status < 400
           /\ result[p].resp = RespOf(p, Len(hist[p]))
           /\ result[p].body = BodyOf(p, Len(hist[p]))

\* A nil error after a failed read and a failed send: 304 on the third attempt.
C12_Witness ==
    \E p \in Calls :
        /\ Done(p) /\ result[p].err.kind = "nil" /\ Len(hist[p]) = 3
        /\ Sent(p, 1).o.kind = "readerr" /\ Sent(p, 2).o.kind = "err"
        /\ result[p].resp.StatusCode = 304

\* C13 as stated: a "do request" error comes with a nil response and body.
C13_DoRequestNil ==
    \A p \in Calls :
        (Done(p) /\ result[p].err.kind = "do request")
        => result[p].resp.isNil /\ result[p].body.isNil

\* C13 as amended: a "do request" error comes with the response and bytes of
\* the last earlier attempt of the call that obtained a response, and with nil
\* ones exactly when no earlier attempt obtained one.
C13_DoRequestLastOutcome ==
    \A p \in Calls :
        (Done(p) /\ result[p].err.kind = "do request")
        => /\ hist[p] # <<>>
           /\ Sent(p, Len(hist[p])).o.kind = "err"
           /\ result[p].resp =
                IF LastGot(p) = 0 THEN NilResp ELSE RespOf(p, LastGot(p))
           /\ result[p].body =
                IF LastGot(p) = 0 THEN NilBytes ELSE BodyOf(p, LastGot(p))

\* 503, then a transport error that is not retried: the 503 comes back.
C13_Witness ==
    \E p \in Calls :
        /\ Done(p) /\ result[p].err.kind = "do request" /\ Len(hist[p]) = 2
        /\ FullResp(p, 1) /\ Sent(p, 1).o.status = 503
        /\ result[p].resp = RespOf(p, 1)
        /\ result[p].body = BodyOf(p, 1)

\* C14: a body-read failure on attempt j is retried exactly when Retry is set
\* and j is below the attempt budget, whatever the status and the read error:
\* the call then sleeps with that attempt's response and partial bytes
\* retained; otherwise the call returns that attempt's response, a nil body
\* and a "read response" error wrapping the read error.
C14_ReadFailure ==
    \A p \in Calls : \A j \in 1..Len(hist[p]) :
        Sent(p, j).o.kind = "readerr" =>
            IF args[p].Retry /\ j < (IF RetryingCall(p) THEN 3 ELSE 1)
            THEN /\ Len(hist[p]) = j =>
                     \/ /\ pc[p] = "sleep"
                        /\ Len(sleeps[p]) = j - 1
                        /\ loc[p].lastResp = RespOf(p, j)
                        /\ loc[p].lastBody = BodyOf(p, j)
                     \/ /\ pc[p] \in {"top", "send"}
                        /\ Len(sleeps[p]) = j
                     \/ /\ Done(p)
                        /\ Len(sleeps[p]) = j
                        /\ result[p] = [resp |-> RespOf(p, j), body |-> BodyOf(p, j),
                                        err |-> [kind |-> "ctx", cause |-> ctxErr[p],
                                                 code |-> 0, terr |-> NoTErr]]
                 /\ Len(hist[p]) > j => Len(sleeps[p]) >= j
            ELSE /\ Len(hist[p]) = j
                 /\ Done(p)
                 /\ result[p] = [resp |-> RespOf(p, j), body |-> NilBytes,
                                 err |-> [kind |-> "read response",
                                          cause |-> Sent(p, j).o.readErr,
                                          code |-> 0, terr |-> NoTErr]]

\* A 404 whose body could not be read was retried, and the read of the third
\* attempt's body failed too.
C14_Witness ==
    \E p \in Calls :
        /\ Done(p) /\ Len(hist[p]) = 3
        /\ Sent(p, 1).o.kind = "readerr" /\ Sent(p, 1).o.status = 404
        /\ Sent(p, 3).o.kind = "readerr"
        /\ result[p].err.kind = "read response"
        /\ result[p].body.isNil /\ ~result[p].resp.isNil

\* The last attempt of call p for which client.Do returned a response, read
\* or not yet read, 0 if there is none.
LastAnswered(p) ==
    LET got == {j \in 1..Len(hist[p]) : Sent(p, j).o.kind \in {"pending", "resp", "readerr"}}
    IN  IF got = {} THEN 0 ELSE CHOOSE j \in got : \A k \in got : k <= j

\* C15 as stated: at every point of a call, lastResp is the response of the
\* most recent attempt that obtained a response, nil if none did.
C15_LastOutcomeAtEveryPoint ==
    \A p \in Calls :
        pc[p] \in {"top", "send", "read", "sleep"} =>
            loc[p].lastResp =
                IF LastAnswered(p) = 0 THEN NilResp ELSE RespOf(p, LastAnswered(p))

\* C15: at every point of a call, lastResp and lastBody are the response and
\* bytes of the most recent attempt whose body read has ended, in bytes or in
\* an error, nil if there is none: a send that failed in the transport left
\* them as they were, and while the body of a response is being read they
\* are still those of the attempts before it.  A non-nil response that the
\* call returns is that of the most recent attempt that obtained one.
C15_LastOutcomeRetained ==
    \A p \in Calls :
        /\ pc[p] \in {"top", "send", "read", "sleep"} =>
            /\ loc[p].lastResp =
                 IF LastGot(p) = 0 THEN NilResp ELSE RespOf(p, LastGot(p))
            /\ loc[p].lastBody =
                 IF LastGot(p) = 0 THEN NilBytes ELSE BodyOf(p, LastGot(p))
        /\ pc[p] = "read" =>
            /\ LastAnswered(p) = Len(hist[p])
            /\ loc[p].resp = RespOf(p, Len(hist[p]))
        /\ (Done(p) /\ ~result[p].resp.isNil) =>
            /\ LastGot(p) # 0
            /\ result[p].resp = RespOf(p, LastGot(p))

\* Attempt 1 was answered 503 and read, attempt 2 failed in the transport,
\* attempt 3 is answered 200 and its body is being read: the 503 and its
\* bytes are still the retained outcome.
C15_Witness ==
    \E p \in Calls :
        /\ pc[p] = "read" /\ Len(hist[p]) = 3
        /\ FullResp(p, 1) /\ Sent(p, 1).o.status = 503
        /\ Sent(p, 2).o.kind = "err"
        /\ Sent(p, 3).o.kind = "pending" /\ Sent(p, 3).o.status = 200
        /\ loc[p].lastResp = RespOf(p, 1)
        /\ loc[p].lastBody = BodyOf(p, 1)

\* Attempt j of call p is one the retry strategy retries: a timeout/temporary
\* transport error, a failed body read, or a fully read retryable status.
Retried(p, j) ==
    \/ FailedRetryably(p, j)
    \/ Sent(p, j).o.kind = "readerr"
    \/ FullResp(p, j) /\ Sent(p, j).o.status \in RetryableStatusSet
BudgetOf(p) == IF RetryingCall(p) THEN 3 ELSE 1

\* C17: the k-th backoff sleep of a call follows its failed attempt k, which
\* is below the budget, precedes attempt k+1 and lasts the delay of index k:
\* at most two sleeps, of 200ms then 400ms, none before the first attempt,
\* none after the last permitted attempt, none of 800ms.
C17_SleepPlacement ==
    \A p \in Calls :
        /\ Len(sleeps[p]) <= 2
        /\ Len(sleeps[p]) <= Len(hist[p])
        /\ Len(hist[p]) <= Len(sleeps[p]) + 1
        /\ \A k \in 1..Len(sleeps[p]) :
            /\ sleeps[p][k].attempt = k
            /\ k < BudgetOf(p)
            /\ Retried(p, k)
            /\ sleeps[p][k].d = (IF k = 1 THEN 200 ELSE 400)
            /\ sleeps[p][k].d # 800
        /\ pc[p] = "sleep" =>
            /\ Len(hist[p]) = Len(sleeps[p]) + 1
            /\ Len(hist[p]) < BudgetOf(p)
            /\ Retried(p, Len(hist[p]))
            /\ loc[p].i = Len(hist[p])

\* Two sleeps, 200ms then 400ms, and the third attempt made.
C17_Witness ==
    \E p \in Calls :
        /\ Done(p) /\ Len(hist[p]) = 3 /\ Len(sleeps[p]) = 2
        /\ sleeps[p][1].d = 200 /\ sleeps[p][2].d = 400
        /\ sleeps[p][1].by = "timer" /\ sleeps[p][2].by = "timer"

\* C18: the loop condition holds whenever a call is at the head of the loop,
\* and a call never takes a retry branch on its last permitted attempt: the
\* statements after the loop are never reached and no call returns "request
\* failed after N attempts".
C18_ReturnsInsideLoop ==
    \A p \in Calls :
        /\ pc[p] = "top" => loc[p].i <= loc[p].attempts
        /\ pc[p] = "sleep" => loc[p].i < loc[p].attempts
        /\ result[p].err.kind # "request failed after attempts"
        /\ Done(p) => loc[p].i <= loc[p].attempts

\* The last permitted attempt failed with a timeout, which earlier attempts
\* retried: the call returned from the loop body.
C18_Witness ==
    \E p \in Calls :
        /\ Done(p) /\ Len(hist[p]) = 3 /\ loc[p].i = 3 /\ loc[p].attempts = 3
        /\ FailedRetryably(p, 3)
        /\ result[p].err.kind = "do request"

\* C16: the delay of sleepBackoff for attempt n is 200ms * 2^(n-1) (200, 400,
\* 800 for n = 1, 2, 3), and the call returns at the earlier of the instant
\* that delay has elapsed and the instant the context was cancelled: it never
\* waits past either, never returns before both, and returns nothing.
C16_BackoffDelayAndSleep ==
    /\ nap.pc # "idle" =>
        /\ nap.d = 200 * 2^(nap.attempt - 1)
        /\ nap.attempt = 1 => nap.d = 200
        /\ nap.attempt = 2 => nap.d = 400
        /\ nap.attempt = 3 => nap.d = 800
        /\ nap.elapsed <= nap.d
        /\ nap.ctxDone => nap.elapsed = nap.doneAt
    /\ nap.pc = "returned" =>
        /\ nap.by \in {"timer", "ctx"}
        /\ nap.ctxDone \/ nap.elapsed = nap.d
        /\ nap.by = "timer" => nap.elapsed = nap.d
        /\ nap.by = "ctx" => nap.ctxDone /\ nap.elapsed = nap.doneAt
        /\ DOMAIN nap = DOMAIN IdleNap

\* The sleep for attempt 3 cut short by cancellation after 400 of its 800ms.
C16_Witness ==
    /\ nap.pc = "returned" /\ nap.attempt = 3 /\ nap.d = 800
    /\ nap.by = "ctx" /\ nap.elapsed = 400

\* Each method text with its trimmed, upper-cased form written out by hand.
NormalForm ==
    {<<<<"G", "E", "T">>, <<"G", "E", "T">>>>,
     <<<<"g", "e", "t">>, <<"G", "E", "T">>>>,
     <<<<" ", "G", "e", "t", " ">>, <<"G", "E", "T">>>>,
     <<<<"H", "E", "A", "D">>, <<"H", "E", "A", "D">>>>,
     <<<<"h", "e", "a", "d", "\r", "\n">>, <<"H", "E", "A", "D">>>>,
     <<<<"P", "U", "T">>, <<"P", "U", "T">>>>,
     <<<<"\t", "P", "U", "T", "\n">>, <<"P", "U", "T">>>>,
     <<<<"p", "u", "t">>, <<"P", "U", "T">>>>,
     <<<<"D", "E", "L", "E", "T", "E">>, <<"D", "E", "L", "E", "T", "E">>>>,
     <<<<"D", "e", "l", "e", "t", "e">>, <<"D", "E", "L", "E", "T", "E">>>>,
     <<<<"O", "P", "T", "I", "O", "N", "S">>, <<"O", "P", "T", "I", "O", "N", "S">>>>,
     <<<<" ", " ", "o", "p", "t", "i", "o", "n", "s">>, <<"O", "P", "T", "I", "O", "N", "S">>>>,
     <<<<"T", "R", "A", "C", "E">>, <<"T", "R", "A", "C", "E">>>>,
     <<<<"t", "r", "a", "c", "e", " ">>, <<"T", "R", "A", "C", "E">>>>,
     <<<<"P", "O", "S", "T">>, <<"P", "O", "S", "T">>>>,
     <<<<"p", "o", "s", "t">>, <<"P", "O", "S", "T">>>>,
     <<<<" ", "P", "O", "S", "T", " ">>, <<"P", "O", "S", "T">>>>,
     <<<<"P", "A", "T", "C", "H">>, <<"P", "A", "T", "C", "H">>>>,
     <<<<"p", "a", "t", "c", "h">>, <<"P", "A", "T", "C", "H">>>>,
     <<<<>>, <<>>>>,
     <<<<" ", " ">>, <<>>>>,
     <<<<"G", "E", "T", "S">>, <<"G", "E", "T", "S">>>>,
     <<<<"G", "E">>, <<"G", "E">>>>,
     <<<<"G", " ", "E", "T">>, <<"G", " ", "E", "T">>>>,
     <<<<"P", "U", "T", "T">>, <<"P", "U", "T", "T">>>>,
     <<<<"C", "O", "N", "N", "E", "C", "T">>, <<"C", "O", "N", "N", "E", "C", "T">>>>,
     <<<<"B", "R", "E", "W">>, <<"B", "R", "E", "W">>>>,
     <<<<"g", "e", "t", " ", "p", "u", "t">>, <<"G", "E", "T", " ", "P", "U", "T">>>>,
     <<<<"\f", "G", "E", "T", "\\v">>, <<"G", "E", "T">>>>,
     <<<<"\\u00a0", "p", "u", "t", "\\u0085">>, <<"P", "U", "T">>>>,
     <<<<"o", "p", "t", "\\u0131", "o", "n", "s">>, <<"O", "P", "T", "I", "O", "N", "S">>>>,
     <<<<"\\u2003", "T", "R", "A", "C", "E", "\\u3000">>, <<"T", "R", "A", "C", "E">>>>,
     <<<<"\\u200b", "G", "E", "T">>, <<"\\u200b", "G", "E", "T">>>>,
     <<<<"p", "o", "\\u017f", "t">>, <<"P", "O", "S", "T">>>>,
     <<<<"G", "\f", "E", "T">>, <<"G", "\f", "E", "T">>>>,
     <<<<"d", "\\u00e9", "l", "e", "t", "e">>, <<"D", "\\u00c9", "L", "E", "T", "E">>>>}
Normalised(raw) == (CHOOSE c \in NormalForm : c[1] = raw)[2]

\* C20: isRetryableStatus is true exactly for 429, 500, 502, 503, 504, and
\* isIdempotentMethod is true exactly when the method, trimmed and
\* upper-cased, is GET, HEAD, PUT, DELETE, OPTIONS or TRACE.
C20_ExactAllowLists ==
    /\ probe.kind = "status" =>
        /\ probe.out = (probe.code \in {429, 500, 502, 503, 504})
        /\ probe.code \in {400, 401, 404, 501, 505} => ~probe.out
    /\ probe.kind = "method" =>
        /\ probe.out = (Normalised(probe.method) \in IdempotentNames)
        /\ Normalised(probe.method) \in {<<"P","O","S","T">>, <<"P","A","T","C","H">>}
               => ~probe.out

\* A method in lower case between a no-break space and a next-line character
\* is recognised.
C20_Witness ==
    /\ probe.kind = "method"
    /\ probe.method = <<"\\u00a0", "p", "u", "t", "\\u0085">>
    /\ probe.out

\* C19: every call that starts eventually returns, and it never makes more
\* than 3 sends or takes more than 2 sleeps on the way, whatever the
\* transport answers and whatever the caller does to its context or buffer.
C19_EventuallyReturns ==
    /\ [](\A p \in Calls : Len(hist[p]) <= 3 /\ Len(sleeps[p]) <= 2)
    /\ \A p \in Calls : (pc[p] = "init") ~> (pc[p] = "done")

\* A call that used its whole budget, slept twice and returned the third
\* answer as a success.
C19_Witness ==
    \E p \in Calls :
        /\ Done(p) /\ Len(hist[p]) = 3 /\ Len(sleeps[p]) = 2
        /\ result[p].err.kind = "nil" /\ ~result[p].resp.isNil

====
